---- MODULE Spec2Model ----
(***************************************************************************)
(* Model of receipt-api/main.go: the ReceiptStore (a mutex-guarded map      *)
(* from identifier to points) and the scoring function calculatePoints.     *)
(*                                                                          *)
(* Go strings are modelled as sequences of one-character strings, so that   *)
(* len, slicing, strings.Split, strings.TrimSpace, strconv.Atoi and         *)
(* strconv.ParseFloat are computed character by character.  float64         *)
(* arithmetic is modelled bit-exactly: a float is a sign, a mantissa of at  *)
(* most 53 bits (most significant bit first) and a binary exponent, and     *)
(* every operation rounds to nearest, ties to even, as IEEE 754 does.       *)
(***************************************************************************)
EXTENDS Integers, Sequences, FiniteSets, TLC

(***************************************************************************)
(* Characters                                                               *)
(***************************************************************************)
Digits == <<"0", "1", "2", "3", "4", "5", "6", "7", "8", "9">>

Lower == <<"a", "b", "c", "d", "e", "f", "g", "h", "i", "j", "k", "l", "m",
           "n", "o", "p", "q", "r", "s", "t", "u", "v", "w", "x", "y", "z">>

Upper == <<"A", "B", "C", "D", "E", "F", "G", "H", "I", "J", "K", "L", "M",
           "N", "O", "P", "Q", "R", "S", "T", "U", "V", "W", "X", "Y", "Z">>

Range(s) == {s[i] : i \in DOMAIN s}

IndexIn(s, c) == CHOOSE i \in DOMAIN s : s[i] = c

\* main.go:67  (char >= 'a' && char <= 'z') || (char >= 'A' && char <= 'Z')
\*             || (char >= '0' && char <= '9')
IsAlnum(c) == c \in Range(Lower) \/ c \in Range(Upper) \/ c \in Range(Digits)

IsDigit(c) == c \in Range(Digits)

DigitVal(c) == IndexIn(Digits, c) - 1

\* unicode.IsSpace restricted to the ASCII white space strings.TrimSpace strips
IsSpace(c) == c \in {" ", "\t", "\n", "\r", "\f"}

(***************************************************************************)
(* Evaluation                                                               *)
(***************************************************************************)
\* F(e), with e evaluated once, whatever the number of times F uses it
With(e, F(_)) == CHOOSE r \in {F(v) : v \in {e}} : TRUE

(***************************************************************************)
(* package strings                                                          *)
(***************************************************************************)
Front(s) == SubSeq(s, 1, Len(s) - 1)

Last(s) == s[Len(s)]

RECURSIVE TrimLeft(_)
TrimLeft(s0) ==
    With(s0, LAMBDA s :
        IF s # <<>> /\ IsSpace(Head(s)) THEN TrimLeft(Tail(s)) ELSE s)

RECURSIVE TrimRight(_)
TrimRight(s0) ==
    With(s0, LAMBDA s :
        IF s # <<>> /\ IsSpace(Last(s)) THEN TrimRight(Front(s)) ELSE s)

\* strings.TrimSpace
TrimSpace(s) == TrimRight(TrimLeft(s))

\* strings.Split(s, sep) for a one-character separator: always at least one
\* part, the parts are the maximal runs between separators
RECURSIVE Split(_, _)
Split(s0, sep) ==
    With(s0, LAMBDA s :
        IF s = <<>> THEN << <<>> >>
        ELSE With(Split(Tail(s), sep), LAMBDA rest :
                 IF Head(s) = sep
                 THEN << <<>> >> \o rest
                 ELSE << <<Head(s)>> \o Head(rest) >> \o Tail(rest)))

(***************************************************************************)
(* Go integer arithmetic                                                    *)
(***************************************************************************)
\* Go's % truncates toward zero: the result has the sign of the dividend
GoRem(a0, b) ==
    With(a0, LAMBDA a : IF a >= 0 THEN a % b ELSE -((-a) % b))

RECURSIVE Pow10(_)
Pow10(n) == IF n = 0 THEN 1 ELSE 10 * Pow10(n - 1)

RECURSIVE DecVal(_)
DecVal(s0) ==
    With(s0, LAMBDA s :
        IF s = <<>> THEN 0 ELSE 10 * DecVal(Front(s)) + DigitVal(Last(s)))

AllDigits(s0) == \A s \in {s0} : \A i \in DOMAIN s : IsDigit(s[i])

HasSign(s) == s # <<>> /\ Head(s) \in {"+", "-"}

Unsigned(s) == IF HasSign(s) THEN Tail(s) ELSE s

\* strconv.Atoi: an optional sign, then one or more decimal digits
Atoi(s0) ==
    With(s0, LAMBDA s :
        With(Unsigned(s), LAMBDA d :
            IF d # <<>> /\ AllDigits(d)
            THEN [err |-> FALSE,
                  val |-> IF Head(s) = "-" THEN -DecVal(d) ELSE DecVal(d)]
            ELSE [err |-> TRUE, val |-> 0]))

(***************************************************************************)
(* Natural numbers: bit sequences (most significant bit first) for          *)
(* rounding, limb sequences (least significant limb first) for arithmetic   *)
(***************************************************************************)
LimbBits == 14

LimbBase == 2 ^ LimbBits

RECURSIVE Strip(_)
Strip(b0) ==
    With(b0, LAMBDA b : IF b # <<>> /\ Head(b) = 0 THEN Strip(Tail(b)) ELSE b)

RECURSIVE BitsVal(_)
BitsVal(b0) ==
    With(b0, LAMBDA b :
        IF b = <<>> THEN 0 ELSE 2 * BitsVal(Front(b)) + Last(b))

Zeros(n) == [i \in 1..n |-> 0]

AnyOne(b0) == \E b \in {b0} : \E i \in DOMAIN b : b[i] = 1

\* b + 1
Inc(b0) ==
    With(b0, LAMBDA b :
        IF \A i \in DOMAIN b : b[i] = 1 THEN <<1>> \o Zeros(Len(b))
        ELSE With(CHOOSE i \in DOMAIN b :
                      b[i] = 0 /\ \A k \in DOMAIN b : k > i => b[k] = 1,
                  LAMBDA j :
                      [i \in DOMAIN b |->
                          IF i < j THEN b[i] ELSE IF i = j THEN 1 ELSE 0]))

RECURSIVE NatLimbs(_)
NatLimbs(n0) ==
    With(n0, LAMBDA n :
        IF n = 0 THEN <<>>
        ELSE <<n % LimbBase>> \o NatLimbs(n \div LimbBase))

LimbBitsOf(v0) ==
    With(v0, LAMBDA v :
        [i \in 1..LimbBits |-> (v \div 2 ^ (LimbBits - i)) % 2])

RECURSIVE LimbsToBits(_)
LimbsToBits(l0) ==
    With(l0, LAMBDA l :
        IF l = <<>> THEN <<>>
        ELSE LimbsToBits(Tail(l)) \o LimbBitsOf(Head(l)))

RECURSIVE BitsToLimbs(_)
BitsToLimbs(b0) ==
    With(b0, LAMBDA b :
        IF b = <<>> THEN <<>>
        ELSE LET n == Len(b)
                 k == IF n < LimbBits THEN n ELSE LimbBits
             IN  <<BitsVal(SubSeq(b, n - k + 1, n))>>
                     \o BitsToLimbs(SubSeq(b, 1, n - k)))

\* the sum of a[i] * b[j] over i + j - 1 = k, for i up to n
RECURSIVE ColSum(_, _, _, _)
ColSum(a, b, k, n) ==
    IF n = 0 THEN 0
    ELSE (IF k + 1 - n \in DOMAIN b THEN a[n] * b[k + 1 - n] ELSE 0)
             + ColSum(a, b, k, n - 1)

RECURSIVE MulCarry(_, _, _, _)
MulCarry(a, b, k, c) ==
    IF k > Len(a) + Len(b) - 1 THEN NatLimbs(c)
    ELSE With(ColSum(a, b, k, Len(a)) + c, LAMBDA t :
             <<t % LimbBase>> \o MulCarry(a, b, k + 1, t \div LimbBase))

\* a * b on limb sequences
MulLimbs(a0, b0) ==
    With(a0, LAMBDA a : With(b0, LAMBDA b :
        IF a = <<>> \/ b = <<>> THEN <<>> ELSE MulCarry(a, b, 1, 0)))

\* long division of the limb sequence l by the small integer d
RECURSIVE DivSmall(_, _)
DivSmall(l0, d) ==
    With(l0, LAMBDA l :
        IF l = <<>> THEN [quo |-> <<>>, rem |-> 0]
        ELSE With(DivSmall(Tail(l), d), LAMBDA hi :
                 With(hi.rem * LimbBase + Head(l), LAMBDA t :
                     [quo |-> <<t \div d>> \o hi.quo, rem |-> t % d])))

(***************************************************************************)
(* float64                                                                  *)
(***************************************************************************)
MantBits == 53

\* limbs of extra quotient precision a decimal conversion computes before
\* it rounds
ShiftLimbs == 5

Zero(neg) == [neg |-> neg, man |-> <<>>, exp |-> 0]

\* b rounded up when up, as a mantissa and the exponent that goes with it
Rounded(neg, b, up, e) ==
    With(IF up THEN Inc(SubSeq(b, 1, MantBits)) ELSE SubSeq(b, 1, MantBits),
         LAMBDA r :
             IF Len(r) > MantBits
             THEN [neg |-> neg, man |-> SubSeq(r, 1, MantBits),
                   exp |-> e + (Len(b) - MantBits) + 1]
             ELSE [neg |-> neg, man |-> r, exp |-> e + (Len(b) - MantBits)])

\* round the exact value (-1)^neg * (b + sticky fraction) * 2^e to 53 bits,
\* to nearest, ties to even
Round53(neg, b0, sticky, e) ==
    With(Strip(b0), LAMBDA b :
        IF Len(b) <= MantBits THEN [neg |-> neg, man |-> b, exp |-> e]
        ELSE LET guard == b[MantBits + 1]
                 low   == sticky \/ AnyOne(SubSeq(b, MantBits + 2, Len(b)))
             IN  Rounded(neg, b, guard = 1 /\ (low \/ b[MantBits] = 1), e))

\* the float64 nearest to (-1)^neg * d / 10^f
FromDecimal(neg, d, f) ==
    IF d = 0 THEN Zero(neg)
    ELSE With(DivSmall(Zeros(ShiftLimbs) \o NatLimbs(d), Pow10(f)),
              LAMBDA q : Round53(neg, LimbsToBits(q.quo), q.rem # 0,
                                 -(ShiftLimbs * LimbBits)))

\* x * y on float64
FMul(x0, y0) ==
    With(x0, LAMBDA x : With(y0, LAMBDA y :
        IF x.man = <<>> \/ y.man = <<>> THEN Zero(x.neg # y.neg)
        ELSE Round53(x.neg # y.neg,
                     LimbsToBits(MulLimbs(BitsToLimbs(x.man),
                                          BitsToLimbs(y.man))),
                     FALSE, x.exp + y.exp)))

\* the integer part of |x| and whether |x| has a fractional part
IntPart(x) ==
    IF x.man = <<>> THEN 0
    ELSE IF x.exp >= 0 THEN BitsVal(x.man \o Zeros(x.exp))
    ELSE IF Len(x.man) + x.exp <= 0 THEN 0
    ELSE BitsVal(SubSeq(x.man, 1, Len(x.man) + x.exp))

HasFrac(x) ==
    /\ x.man # <<>>
    /\ x.exp < 0
    /\ \E i \in DOMAIN x.man : i > Len(x.man) + x.exp /\ x.man[i] = 1

\* int(x): conversion of a float64 to int truncates toward zero
FloatToInt(x0) ==
    With(x0, LAMBDA x : IF x.neg THEN -IntPart(x) ELSE IntPart(x))

\* int(math.Ceil(x))
CeilToInt(x0) ==
    With(x0, LAMBDA x :
        IF x.neg THEN -IntPart(x)
        ELSE IntPart(x) + (IF HasFrac(x) THEN 1 ELSE 0))

\* the decimal syntax strconv.ParseFloat reads: an optional sign, digits with
\* at most one '.', at least one digit; digits is the digit string without
\* the point, frac the number of digits after the point
ParseDecimal(s0) ==
    With(s0, LAMBDA s :
        With(Unsigned(s), LAMBDA u :
            With({i \in DOMAIN u : u[i] = "."}, LAMBDA dots :
                With(IF dots = {} THEN Len(u) + 1 ELSE CHOOSE i \in dots : TRUE,
                     LAMBDA dot :
                    LET ip == SubSeq(u, 1, dot - 1)
                        fp == SubSeq(u, dot + 1, Len(u))
                    IN  IF /\ Cardinality(dots) <= 1
                           /\ AllDigits(ip) /\ AllDigits(fp)
                           /\ Len(ip) + Len(fp) > 0
                        THEN [err |-> FALSE,
                              neg |-> HasSign(s) /\ Head(s) = "-",
                              digits |-> DecVal(ip \o fp), frac |-> Len(fp)]
                        ELSE [err |-> TRUE, neg |-> FALSE, digits |-> 0,
                              frac |-> 0]))))

\* strconv.ParseFloat(s, 64): the float64 nearest to the decimal read
ParseFloat(s) ==
    With(ParseDecimal(s), LAMBDA d :
        IF d.err THEN [err |-> TRUE, val |-> Zero(FALSE)]
        ELSE [err |-> FALSE, val |-> FromDecimal(d.neg, d.digits, d.frac)])

(***************************************************************************)
(* calculatePoints                                                          *)
(***************************************************************************)
\* the untyped constants 100 and 0.2 of main.go:78 and main.go:90, converted
\* to float64 by the compiler
Const100 == FromDecimal(FALSE, 100, 0)

Const02 == FromDecimal(FALSE, 2, 1)

\* Rule 1: one point for every alphanumeric character in the retailer name
Rule1(retailer) == Cardinality({i \in DOMAIN retailer : IsAlnum(retailer[i])})

\* receipt.Total[len(receipt.Total)-3:] panics (slice bounds out of range)
\* when the total has fewer than three characters
SlicePanics(total) == Len(total) - 3 < 0

\* Rule 2: 50 points if the total ends in ".00"
Rule2(total) ==
    IF SubSeq(total, Len(total) - 2, Len(total)) = <<".", "0", "0">>
    THEN 50 ELSE 0

\* Rule 3: 25 points if int(totalFloat*100) % 25 == 0
Rule3(total) ==
    With(ParseFloat(total), LAMBDA totalFloat :
        IF /\ ~totalFloat.err
           /\ GoRem(FloatToInt(FMul(totalFloat.val, Const100)), 25) = 0
        THEN 25 ELSE 0)

\* Rule 4: 5 points for every two items
Rule4(items) == (Len(items) \div 2) * 5

\* Rule 5, one item: int(math.Ceil(price * 0.2)) when the trimmed length of
\* the description is a multiple of 3 and the price parses
ItemPoints(item) ==
    With(Len(TrimSpace(item.shortDescription)), LAMBDA trimmedLength :
        With(ParseFloat(item.price), LAMBDA price :
            IF GoRem(trimmedLength, 3) = 0 /\ ~price.err
            THEN CeilToInt(FMul(price.val, Const02))
            ELSE 0))

RECURSIVE Rule5(_)
Rule5(items) ==
    IF items = <<>> THEN 0 ELSE ItemPoints(Head(items)) + Rule5(Tail(items))

\* Rule 6: 6 points if the day of the purchase date is odd
Rule6(purchaseDate) ==
    With(Split(purchaseDate, "-"), LAMBDA dateParts :
        IF Len(dateParts) = 3
        THEN With(Atoi(dateParts[3]), LAMBDA day :
                 IF ~day.err /\ GoRem(day.val, 2) = 1 THEN 6 ELSE 0)
        ELSE 0)

\* Rule 7: 10 points if the hour of the purchase time is 14 or 15
Rule7(purchaseTime) ==
    With(Split(purchaseTime, ":"), LAMBDA timeParts :
        IF Len(timeParts) = 2
        THEN With(Atoi(timeParts[1]), LAMBDA hour :
                 IF ~hour.err /\ hour.val >= 14 /\ hour.val < 16
                 THEN 10 ELSE 0)
        ELSE 0)

\* whether calculatePoints(receipt) panics instead of returning
Panics(rcpt) == SlicePanics(rcpt.total)

\* the value calculatePoints(receipt) returns when it returns
calculatePoints(rcpt) ==
    Rule1(rcpt.retailer)
        + Rule2(rcpt.total)
        + Rule3(rcpt.total)
        + Rule4(rcpt.items)
        + Rule5(rcpt.items)
        + Rule6(rcpt.purchaseDate)
        + Rule7(rcpt.purchaseTime)

(***************************************************************************)
(* Inputs                                                                   *)
(***************************************************************************)
Target == <<"T", "a", "r", "g", "e", "t">>

MMCornerMarket ==
    <<"M", "&", "M", " ", "C", "o", "r", "n", "e", "r", " ", "M", "a", "r",
      "k", "e", "t">>

MountainDew ==
    <<"M", "o", "u", "n", "t", "a", "i", "n", " ", "D", "e", "w", " ", "1",
      "2", "P", "K">>

EmilsPizza ==
    <<"E", "m", "i", "l", "s", " ", "C", "h", "e", "e", "s", "e", " ", "P",
      "i", "z", "z", "a">>

KnorrChicken ==
    <<"K", "n", "o", "r", "r", " ", "C", "r", "e", "a", "m", "y", " ", "C",
      "h", "i", "c", "k", "e", "n">>

Doritos ==
    <<"D", "o", "r", "i", "t", "o", "s", " ", "N", "a", "c", "h", "o", " ",
      "C", "h", "e", "e", "s", "e">>

Klarbrunn ==
    <<"K", "l", "a", "r", "b", "r", "u", "n", "n", " ", "1", "2", "-", "P",
      "K", " ", "1", "2", " ", "F", "L", " ", "O", "Z">>

PaddedGum == <<" ", "G", "u", "m", "\t">>

Item(d, p) == [shortDescription |-> d, price |-> p]

MakeReceipt(r, d, t, i, tot) ==
    [retailer |-> r, purchaseDate |-> d, purchaseTime |-> t, items |-> i,
     total |-> tot]

\* the documented example: 28 points
RefItems ==
    <<Item(MountainDew, <<"6", ".", "4", "9">>),
      Item(EmilsPizza, <<"1", "2", ".", "2", "5">>),
      Item(KnorrChicken, <<"1", ".", "2", "6">>),
      Item(Doritos, <<"3", ".", "3", "5">>),
      Item(Klarbrunn, <<"1", "2", ".", "0", "0">>)>>

RefReceipt ==
    MakeReceipt(Target, <<"2", "0", "2", "2", "-", "0", "1", "-", "0", "1">>,
                <<"1", "3", ":", "0", "1">>, RefItems,
                <<"3", "5", ".", "3", "5">>)

\* no rule applies: 0 points
ZeroReceipt ==
    MakeReceipt(<<>>, <<"2", "0", "2", "2", "-", "0", "1", "-", "0", "2">>,
                <<"1", "3", ":", "0", "1">>, <<>>, <<"1", ".", "1", "0">>)

\* a total of fewer than three characters
ShortReceipt ==
    MakeReceipt(Target, <<"2", "0", "2", "2", "-", "0", "1", "-", "0", "1">>,
                <<"1", "3", ":", "0", "1">>, <<>>, <<"5">>)

\* the receipts submitted to the store
Receipts == {RefReceipt, ZeroReceipt, ShortReceipt}

Retailers ==
    {<<>>,
     <<"T", "a", "r", "g", "e", "t">>,
     <<"M", "&", "M", " ", "C", "o", "r", "n", "e", "r", " ", "M", "a", "r", "k", "e", "t">>}

Totals ==
    {<<"3", "5", ".", "3", "5">>,
     <<"3", "5", ".", "0", "0">>,
     <<"3", "5", ".", "2", "5">>,
     <<"2", ".", "0", "1">>,
     <<"-", "1", ".", "0", "0">>,
     <<"a", "b", "c">>,
     <<"5">>,
     <<>>}

Descriptions ==
    {<<"E", "m", "i", "l", "s", " ", "C", "h", "e", "e", "s", "e", " ", "P", "i", "z", "z", "a">>,
     <<"M", "o", "u", "n", "t", "a", "i", "n", " ", "D", "e", "w", " ", "1", "2", "P", "K">>,
     <<" ", "G", "u", "m", "\t">>,
     <<" ", " ">>}

Prices ==
    {<<"1", "2", ".", "2", "5">>,
     <<"-", "1", "0", ".", "0", "0">>,
     <<"1", ".", "2", ".", "5">>}

Dates ==
    {<<"2", "0", "2", "2", "-", "0", "1", "-", "0", "1">>,
     <<"2", "0", "2", "2", "-", "0", "1", "-", "0", "2">>,
     <<"2", "0", "2", "2", "-", "0", "1">>,
     <<"2", "0", "2", "2", "-", "0", "1", "-", "1", "x">>}

Times ==
    {<<"1", "3", ":", "0", "1">>,
     <<"1", "4", ":", "3", "3">>,
     <<"1", "6", ":", "0", "0">>,
     <<"1", "4", "3", "3">>,
     <<"+", "1", "5", ":", "0", "0">>}

Items == {Item(d, p) : d \in Descriptions, p \in Prices}

\* the item lists scored: every list of at most MaxItems items, and the
\* five items of the documented example
MaxItems == 1

ItemLists ==
    {RefItems} \cup UNION {[1..n -> Items] : n \in 0..MaxItems}

AllReceipts ==
    {MakeReceipt(r, d, t, i, tot) :
        r \in Retailers, d \in Dates, t \in Times, i \in ItemLists,
        tot \in Totals}

(***************************************************************************)
(* The store and its callers                                                *)
(***************************************************************************)
\* concurrent requests served by the HTTP server
NumProcs == 2

\* AddReceipt calls made in one run
MaxAdds == 2

Procs == 1..NumProcs

\* identifiers uuid.New() can return: more than the run ever draws
Ids == 1..(MaxAdds + 1)

NoId == 0

NoReceipt == MakeReceipt(<<>>, <<>>, <<>>, <<>>, <<>>)

VARIABLES
    mu,         \* ReceiptStore.mu: TRUE when locked
    receipts,   \* ReceiptStore.receipts: identifier -> points
    issued,     \* the identifiers uuid.New() has returned so far
    returned,   \* history: identifier -> receipt, for each AddReceipt call
                \* that has returned
    pc,         \* where each request is
    receipt,    \* AddReceipt's argument
    id,         \* AddReceipt's id, GetPoints' argument
    points,     \* AddReceipt's and GetPoints' points
    exists      \* GetPoints' exists

vars == <<mu, receipts, issued, returned, pc, receipt, id, points, exists>>

locals == <<receipt, id, points, exists>>

\* Go maps: m[k] = v
MapPut(m, k, v) == [x \in DOMAIN m \cup {k} |-> IF x = k THEN v ELSE m[x]]

\* a faulty lookup: the zero value of an absent key is reported as found
MapGetConflated(m, k) ==
    [points |-> IF k \in DOMAIN m THEN m[k] ELSE 0, exists |-> TRUE]

\* Go maps: v, ok := m[k] gives the zero value and false for an absent key
MapGet(m, k) ==
    IF k \in DOMAIN m THEN [points |-> m[k], exists |-> TRUE]
    ELSE [points |-> 0, exists |-> FALSE]

\* a faulty Lock: locks without waiting for the mutex to be unlocked
LockNoWait == mu' = TRUE

\* s.mu.Lock(): blocks until the mutex is unlocked, then locks it
Lock == mu = FALSE /\ mu' = TRUE

\* s.mu.Unlock()
Unlock == mu' = FALSE

\* a faulty generator: an identifier drawn before can be drawn again
uuidReused == Ids

\* uuid.New(): a random identifier, distinct from every one drawn before
uuidNew == Ids \ issued

\* the requests inside AddReceipt or GetPoints, between Lock and Unlock
Holding(p) ==
    pc[p] \in {"add_uuid", "add_calc", "add_store", "add_ret",
               "get_read", "get_ret"}

\* AddReceipt calls begun so far
AddsBegun ==
    Cardinality(issued)
        + Cardinality({p \in Procs : pc[p] \in {"add_lock", "add_uuid"}})

Goto(p, l) == pc' = [pc EXCEPT ![p] = l]

Clear(p) ==
    /\ receipt' = [receipt EXCEPT ![p] = NoReceipt]
    /\ id' = [id EXCEPT ![p] = NoId]
    /\ points' = [points EXCEPT ![p] = 0]
    /\ exists' = [exists EXCEPT ![p] = FALSE]

Init ==
    /\ mu = FALSE
    /\ receipts = [x \in {} |-> 0]
    /\ issued = {}
    /\ returned = [x \in {} |-> NoReceipt]
    /\ pc = [p \in Procs |-> "idle"]
    /\ receipt = [p \in Procs |-> NoReceipt]
    /\ id = [p \in Procs |-> NoId]
    /\ points = [p \in Procs |-> 0]
    /\ exists = [p \in Procs |-> FALSE]

\* POST /receipts/process: the decoded receipt is passed to AddReceipt
PostReceipt(p, r) ==
    /\ pc[p] = "idle"
    /\ AddsBegun < MaxAdds
    /\ receipt' = [receipt EXCEPT ![p] = r]
    /\ Goto(p, "add_lock")
    /\ UNCHANGED <<mu, receipts, issued, returned, id, points, exists>>

\* AddReceipt: s.mu.Lock(); defer s.mu.Unlock()
AddLock(p) ==
    /\ pc[p] = "add_lock"
    /\ Lock
    /\ Goto(p, "add_uuid")
    /\ UNCHANGED <<receipts, issued, returned, locals>>

\* AddReceipt: id := uuid.New().String()
AddUuid(p) ==
    /\ pc[p] = "add_uuid"
    /\ \E u \in uuidNew :
        /\ id' = [id EXCEPT ![p] = u]
        /\ issued' = issued \cup {u}
    /\ Goto(p, "add_calc")
    /\ UNCHANGED <<mu, receipts, returned, receipt, points, exists>>

\* AddReceipt: points := calculatePoints(receipt), when it returns
AddCalc(p) ==
    /\ pc[p] = "add_calc"
    /\ ~Panics(receipt[p])
    /\ points' = [points EXCEPT ![p] = calculatePoints(receipt[p])]
    /\ Goto(p, "add_store")
    /\ UNCHANGED <<mu, receipts, issued, returned, receipt, id, exists>>

\* a faulty AddReceipt: Unlock is called at the end instead of deferred, so a
\* panic leaves the mutex locked
AddPanicLocked(p) ==
    /\ pc[p] = "add_calc"
    /\ Panics(receipt[p])
    /\ Goto(p, "add_fault")
    /\ UNCHANGED <<mu, receipts, issued, returned, locals>>

\* a faulty AddReceipt: the entry is inserted before scoring, so a panic
\* leaves an entry with the zero score behind
AddPanicStored(p) ==
    /\ pc[p] = "add_calc"
    /\ Panics(receipt[p])
    /\ receipts' = MapPut(receipts, id[p], 0)
    /\ Unlock
    /\ Goto(p, "add_fault")
    /\ UNCHANGED <<issued, returned, locals>>

\* AddReceipt: calculatePoints(receipt) panics; the deferred Unlock runs as
\* the panic unwinds AddReceipt
AddPanic(p) ==
    /\ pc[p] = "add_calc"
    /\ Panics(receipt[p])
    /\ Unlock
    /\ Goto(p, "add_fault")
    /\ UNCHANGED <<receipts, issued, returned, locals>>

\* a faulty AddReceipt: the map is rebuilt with the new entry alone, losing
\* the entries of the other calls
AddStoreLost(p) ==
    /\ pc[p] = "add_store"
    /\ receipts' = [x \in {id[p]} |-> points[p]]
    /\ Goto(p, "add_ret")
    /\ UNCHANGED <<mu, issued, returned, locals>>

\* AddReceipt: s.receipts[id] = points
AddStore(p) ==
    /\ pc[p] = "add_store"
    /\ receipts' = MapPut(receipts, id[p], points[p])
    /\ Goto(p, "add_ret")
    /\ UNCHANGED <<mu, issued, returned, locals>>

\* AddReceipt: return id, running the deferred Unlock; the handler answers
\* 200 {"id": id}
AddReturn(p) ==
    /\ pc[p] = "add_ret"
    /\ Unlock
    /\ returned' = MapPut(returned, id[p], receipt[p])
    /\ Clear(p)
    /\ Goto(p, "idle")
    /\ UNCHANGED <<receipts, issued>>

\* the server recovers the panic of the handler and answers 500
Recover(p) ==
    /\ pc[p] = "add_fault"
    /\ Clear(p)
    /\ Goto(p, "idle")
    /\ UNCHANGED <<mu, receipts, issued, returned>>

\* GET /receipts/:id/points: the path parameter is passed to GetPoints
GetRequest(p, i) ==
    /\ pc[p] = "idle"
    /\ id' = [id EXCEPT ![p] = i]
    /\ Goto(p, "get_lock")
    /\ UNCHANGED <<mu, receipts, issued, returned, receipt, points, exists>>

\* GetPoints: s.mu.Lock(); defer s.mu.Unlock()
GetLock(p) ==
    /\ pc[p] = "get_lock"
    /\ Lock
    /\ Goto(p, "get_read")
    /\ UNCHANGED <<receipts, issued, returned, locals>>

\* a faulty GetPoints: the lookup stores the value it read, which creates
\* an entry for an absent identifier
GetReadInsert(p) ==
    /\ pc[p] = "get_read"
    /\ points' = [points EXCEPT ![p] = MapGet(receipts, id[p]).points]
    /\ exists' = [exists EXCEPT ![p] = MapGet(receipts, id[p]).exists]
    /\ receipts' = MapPut(receipts, id[p], MapGet(receipts, id[p]).points)
    /\ Goto(p, "get_ret")
    /\ UNCHANGED <<mu, issued, returned, receipt, id>>

\* GetPoints: points, exists := s.receipts[id]
GetRead(p) ==
    /\ pc[p] = "get_read"
    /\ points' = [points EXCEPT ![p] = MapGet(receipts, id[p]).points]
    /\ exists' = [exists EXCEPT ![p] = MapGet(receipts, id[p]).exists]
    /\ Goto(p, "get_ret")
    /\ UNCHANGED <<mu, receipts, issued, returned, receipt, id>>

\* what the handler answers to the points and exists GetPoints returns:
\* 200 {"points": points} or 404 {"error": "Receipt not found"}
GetResponse(p) ==
    IF exists[p] THEN [status |-> "OK", points |-> points[p]]
    ELSE [status |-> "NotFound", points |-> 0]

\* GetPoints: return points, exists, running the deferred Unlock; the
\* handler answers GetResponse(p)
GetReturn(p) ==
    /\ pc[p] = "get_ret"
    /\ Unlock
    /\ Clear(p)
    /\ Goto(p, "idle")
    /\ UNCHANGED <<receipts, issued, returned>>

\* the steps of request p inside the store and its handler
Step(p) ==
    \/ AddLock(p)
    \/ AddUuid(p)
    \/ AddCalc(p)
    \/ AddPanic(p)
    \/ AddStore(p)
    \/ AddReturn(p)
    \/ Recover(p)
    \/ GetLock(p)
    \/ GetRead(p)
    \/ GetReturn(p)

Next ==
    \E p \in Procs :
        \/ \E r \in Receipts : PostReceipt(p, r)
        \/ \E i \in Ids : GetRequest(p, i)
        \/ Step(p)

Spec == Init /\ [][Next]_vars

\* requests acquire the mutex fairly (sync.Mutex hands the lock to a waiter
\* that has waited long) and a running request keeps running
Fairness ==
    \A p \in Procs :
        /\ WF_vars(Step(p))
        /\ SF_vars(AddLock(p))
        /\ SF_vars(GetLock(p))

\* the inputs of the liveness runs: a receipt that is scored, a receipt
\* whose scoring panics, lookups of one identifier
LiveReceipts == {ZeroReceipt, ShortReceipt}

LiveIds == {1}

LiveNext ==
    \E p \in Procs :
        \/ \E r \in LiveReceipts : PostReceipt(p, r)
        \/ \E i \in LiveIds : GetRequest(p, i)
        \/ Step(p)

LiveSpec == Init /\ [][LiveNext]_vars /\ Fairness

\* one request scoring any receipt of AllReceipts, then looking points up
ScoreInit ==
    /\ mu = FALSE
    /\ receipts = [x \in {} |-> 0]
    /\ issued = {}
    /\ returned = [x \in {} |-> NoReceipt]
    /\ pc = [p \in Procs |-> IF p = 1 THEN "add_lock" ELSE "idle"]
    /\ \E r \in AllReceipts :
           receipt = [p \in Procs |-> IF p = 1 THEN r ELSE NoReceipt]
    /\ id = [p \in Procs |-> NoId]
    /\ points = [p \in Procs |-> 0]
    /\ exists = [p \in Procs |-> FALSE]

ScoreNext ==
    \/ \E i \in Ids : GetRequest(1, i)
    \/ Step(1)

ScoreSpec == ScoreInit /\ [][ScoreNext]_vars

(***************************************************************************)
(* Properties                                                               *)
(***************************************************************************)
\* the score of each receipt submitted for which calculatePoints returns
ScoreTable == {<<r, calculatePoints(r)>> : r \in {x \in Receipts : ~Panics(x)}}

\* the score AddReceipt is to store for a receipt
ScoreOf(r) == (CHOOSE e \in ScoreTable : e[1] = r)[2]

\* C1: concurrent AddReceipt calls return pairwise different identifiers (the
\* identifier a call is about to return is none of those returned before),
\* every returned identifier maps to exactly the score of the receipt that
\* call submitted, and a GetPoints that looks up a returned identifier finds
\* it with that score.
C1_UniqueAndRetrievable ==
    /\ \A p \in Procs : pc[p] = "add_ret" => id[p] \notin DOMAIN returned
    /\ \A i \in DOMAIN returned :
           MapGet(receipts, i) = [points |-> ScoreOf(returned[i]),
                                  exists |-> TRUE]
    /\ \A p \in Procs :
           pc[p] = "get_ret" /\ id[p] \in DOMAIN returned =>
               exists[p] /\ points[p] = ScoreOf(returned[id[p]])

\* two calls with different scores have returned and a lookup has found one
C1_Witness ==
    /\ \E i, j \in DOMAIN returned : ScoreOf(returned[i]) # ScoreOf(returned[j])
    /\ \E p \in Procs : pc[p] = "get_ret" /\ exists[p]

\* C2: every AddReceipt call completes without fault and returns an
\* identifier: no call ends in a panic.
C2_AlwaysSucceeds == \A p \in Procs : pc[p] # "add_fault"

\* C3: every points value computed, stored in the mapping or returned by
\* GetPoints is a non-negative integer.
C3_NonNegative ==
    /\ \A i \in DOMAIN receipts : receipts[i] >= 0
    /\ \A p \in Procs : pc[p] \in {"add_store", "add_ret", "get_ret"} =>
           points[p] >= 0

\* C4: GetPoints finds an identifier exactly when an earlier completed
\* AddReceipt returned it; an identifier never issued is answered "not
\* found", which differs from the answer for a stored score of 0.
C4_FoundIffReturned ==
    \A p \in Procs : pc[p] = "get_ret" =>
        /\ exists[p] <=> id[p] \in DOMAIN returned
        /\ id[p] \notin issued => GetResponse(p).status = "NotFound"
        /\ exists[p] =>
               GetResponse(p) = [status |-> "OK", points |-> receipts[id[p]]]

\* a lookup has found a stored score of 0
C4_Witness ==
    \E p \in Procs :
        /\ pc[p] = "get_ret" /\ exists[p] /\ points[p] = 0
        /\ Ids \ issued # {}

\* a request is in GetPoints, or entering or leaving it, in this step
GetStep(p) ==
    \/ pc[p] = "idle" /\ pc'[p] = "get_lock"
    \/ pc[p] \in {"get_lock", "get_read", "get_ret"} /\ pc'[p] # pc[p]

\* C5: GetPoints is read-only: no step of a GetPoints call changes the
\* mapping (a lookup of an absent identifier creates no entry), and what it
\* returns is determined by the mapping and the identifier alone.
C5_ReadOnly ==
    [][\A p \in Procs : GetStep(p) =>
           /\ receipts' = receipts
           /\ pc'[p] = "get_ret" =>
                  /\ points'[p] = MapGet(receipts, id[p]).points
                  /\ exists'[p] = MapGet(receipts, id[p]).exists]_vars

\* a lookup of an absent identifier has returned not found, and the
\* identifier is still absent
C5_Witness ==
    \E p \in Procs :
        pc[p] = "get_ret" /\ ~exists[p] /\ id[p] \notin DOMAIN receipts

\* C6: entries are immutable and identifiers never reused: every entry stays
\* with the same points, AddReceipt inserts under an identifier that was
\* absent, and the mapping grows by exactly that entry.
C6_Immutable ==
    [][/\ \A i \in DOMAIN receipts :
              i \in DOMAIN receipts' /\ receipts'[i] = receipts[i]
       /\ \A p \in Procs : pc[p] = "add_store" /\ pc'[p] = "add_ret" =>
              /\ id[p] \notin DOMAIN receipts
              /\ DOMAIN receipts' = DOMAIN receipts \cup {id[p]}
              /\ receipts'[id[p]] = points[p]
       /\ receipts' # receipts =>
              \E p \in Procs : pc[p] = "add_store" /\ pc'[p] = "add_ret"]_vars

\* a second entry has been inserted next to the first
C6_Witness ==
    \E p \in Procs :
        /\ pc[p] = "add_ret"
        /\ Cardinality(DOMAIN receipts) >= 2

\* the amount of a decimal in cents, computed exactly
ExactCents(d) == (d.digits * 100) \div Pow10(d.frac)

\* the ceiling of the decimal times 0.2, computed exactly
ExactFifthCeil(d) ==
    LET den == 5 * Pow10(d.frac)
    IN  IF d.neg THEN -(d.digits \div den)
        ELSE (d.digits + den - 1) \div den

\* rule 3 as documented: 25 points if the total is a multiple of 0.25
DocRule3(total) ==
    LET d == ParseDecimal(total)
    IN  IF ~d.err /\ ExactCents(d) % 25 = 0 THEN 25 ELSE 0

\* rule 5 as documented, one item
DocItemPoints(item) ==
    LET d == ParseDecimal(item.price)
    IN  IF Len(TrimSpace(item.shortDescription)) % 3 = 0 /\ ~d.err
        THEN ExactFifthCeil(d) ELSE 0

RECURSIVE DocRule5(_)
DocRule5(items) ==
    IF items = <<>> THEN 0
    ELSE DocItemPoints(Head(items)) + DocRule5(Tail(items))

\* the sum of the seven documented rule contributions
DocPoints(r) ==
    Rule1(r.retailer) + Rule2(r.total) + DocRule3(r.total) + Rule4(r.items)
        + DocRule5(r.items) + Rule6(r.purchaseDate) + Rule7(r.purchaseTime)

\* C7: calculatePoints returns the sum of the seven rule contributions, each
\* as documented (rule 3: 25 points when the total in cents is divisible by
\* 25), and 28 for the documented example.
C7_SumOfRules ==
    \A p \in Procs : pc[p] = "add_store" =>
        /\ points[p] = DocPoints(receipt[p])
        /\ receipt[p] = RefReceipt => points[p] = 28

\* C8: at most one AddReceipt or GetPoints is between Lock and Unlock, the
\* mutex is locked exactly then, and a GetPoints that finds an entry finds
\* it complete, with the final score of a call that has returned.
C8_MutualExclusion ==
    /\ Cardinality({p \in Procs : Holding(p)}) <= 1
    /\ mu <=> \E p \in Procs : Holding(p)
    /\ \A p \in Procs : pc[p] = "get_ret" /\ exists[p] =>
           /\ id[p] \in DOMAIN returned
           /\ points[p] = ScoreOf(returned[id[p]])

\* a GetPoints waits for the mutex while an AddReceipt is about to insert
C8_Witness ==
    \E p, q \in Procs : pc[p] = "add_store" /\ pc[q] = "get_lock"

\* C9: every call that has begun finishes, whoever else is calling, and the
\* mutex is unlocked whenever no call is between Lock and Unlock.
C9_Completes ==
    /\ \A p \in Procs : (pc[p] # "idle") ~> (pc[p] = "idle")
    /\ []((\A p \in Procs : ~Holding(p)) => ~mu)

\* a GetPoints waits for the mutex while the AddReceipt holding it is about
\* to panic
C9_Witness ==
    \E p, q \in Procs :
        pc[p] = "get_lock" /\ pc[q] = "add_calc" /\ Panics(receipt[q])

\* C10: when scoring panics inside AddReceipt, the mapping is left as it
\* was, with no entry for the identifier the call minted, and the mutex is
\* unlocked (Lock is enabled for the requests waiting for it).
C10_FaultLeavesStore ==
    [][\A p \in Procs :
           pc[p] = "add_calc" /\ Panics(receipt[p]) /\ pc'[p] # pc[p] =>
               /\ receipts' = receipts
               /\ id[p] \notin DOMAIN receipts'
               /\ ~mu']_vars

\* after a call panicked, another call has acquired the mutex
C10_Witness ==
    \E p, q \in Procs : pc[p] = "add_fault" /\ pc[q] \in {"add_uuid", "get_read"}

====
